---- MODULE Spec2Model ----
(***************************************************************************)
(* A model of the Streamlit weather report app (src/app.py).               *)
(*                                                                         *)
(* One Streamlit session is modelled: every user interaction re-runs       *)
(* main() from the top with the current widget values.  The two           *)
(* st.cache_data caches, the clock and the answers of the Open-Meteo       *)
(* services are part of the state or inputs of a run.                      *)
(*                                                                         *)
(* Conventions.  Text the code strips (city, timezone) is a sequence of    *)
(* one-character strings.  A Python dict is a function whose DOMAIN is the *)
(* set of its keys.  Times are seconds; the payload's hourly timestamps    *)
(* are hour numbers and its daily ones day numbers, which pd.to_datetime   *)
(* turns into instants.  Coordinates are integers in 1e-4 degrees.         *)
(***************************************************************************)
EXTENDS Integers, Sequences, FiniteSets, TLC

(* ---------------------------------------------------------------------- *)
(* Bounds of the exploration                                               *)
(* ---------------------------------------------------------------------- *)
\* clicks on "Get Weather" explored in one session (Spec)
MaxSubmits == 1
\* clicks on "Get Weather" explored in one session (SpecGeocode, SpecUnits)
MaxCalls == 2
\* advances of the clock explored in one session
MaxTicks == 1
\* longest hourly frame handed to the 24-hour chart in SpecChart
MaxHours == 27
\* latest value of "now" (in hours) tried in SpecChart
MaxNowHour == 30

(* ---------------------------------------------------------------------- *)
(* Program constants                                                       *)
(* ---------------------------------------------------------------------- *)
GEO_TTL == 3600
FETCH_TTL == 300
MAX_RESULTS == 5
CHART_HOURS == 24
TABLE_DAYS == 7
SECONDS_PER_HOUR == 3600
SECONDS_PER_DAY == 86400

GEOCODING_URL == "https://geocoding-api.open-meteo.com/v1/search"
FORECAST_URL == "https://api.open-meteo.com/v1/forecast"

\* one row per entry: <<code, description, emoji>>
WEATHER_CODE_MAP ==
    <<<<0, "Clear sky", "sun">>,
      <<1, "Mainly clear", "sun_small_cloud">>,
      <<2, "Partly cloudy", "sun_behind_cloud">>,
      <<3, "Overcast", "cloud">>,
      <<45, "Fog", "fog">>,
      <<48, "Depositing rime fog", "fog">>,
      <<51, "Light drizzle", "sun_rain">>,
      <<53, "Moderate drizzle", "rain">>,
      <<55, "Dense drizzle", "rain">>,
      <<56, "Light freezing drizzle", "rain_snowflake">>,
      <<57, "Dense freezing drizzle", "rain_snowflake">>,
      <<61, "Slight rain", "rain">>,
      <<63, "Moderate rain", "rain">>,
      <<65, "Heavy rain", "thunder_rain">>,
      <<66, "Light freezing rain", "rain_snowflake">>,
      <<67, "Heavy freezing rain", "rain_snowflake">>,
      <<71, "Slight snow fall", "snowflake">>,
      <<73, "Moderate snow fall", "snowflake">>,
      <<75, "Heavy snow fall", "snowflake">>,
      <<77, "Snow grains", "snowflake">>,
      <<80, "Slight rain showers", "sun_rain">>,
      <<81, "Moderate rain showers", "rain">>,
      <<82, "Violent rain showers", "thunder_rain">>,
      <<85, "Slight snow showers", "snow_cloud">>,
      <<86, "Heavy snow showers", "snow_cloud">>,
      <<95, "Thunderstorm", "thunder_rain_bolt">>,
      <<96, "Thunderstorm with slight hail", "thunder_rain_bolt">>,
      <<99, "Thunderstorm with heavy hail", "thunder_rain_bolt">>>>

(* ---------------------------------------------------------------------- *)
(* Python helpers                                                          *)
(* ---------------------------------------------------------------------- *)
EmptyDict == [k \in {} |-> 0]

\* dict.get(key, default)
Get(d, k, default) == IF k \in DOMAIN d THEN d[k] ELSE default

RECURSIVE lstrip(_)
lstrip(s) == IF s # <<>> /\ Head(s) = " " THEN lstrip(Tail(s)) ELSE s

RECURSIVE rstrip(_)
rstrip(s) ==
    IF s # <<>> /\ s[Len(s)] = " " THEN rstrip(SubSeq(s, 1, Len(s) - 1)) ELSE s

\* str.strip()
strip(s) == rstrip(lstrip(s))

\* df.head(n) / list[:n]
head(s, n) == SubSeq(s, 1, IF Len(s) < n THEN Len(s) ELSE n)

\* list.index(x): the first position holding x
IndexOf(s, x) == CHOOSE i \in 1..Len(s) : s[i] = x /\ \A j \in 1..(i - 1) : s[j] # x

\* format(x, ".3f") of a coordinate held in 1e-4 degrees, as 1e-3 degrees
Fmt3(x) == IF x >= 0 THEN (x + 5) \div 10 ELSE -((5 - x) \div 10)

(* ---------------------------------------------------------------------- *)
(* Weather codes                                                           *)
(* ---------------------------------------------------------------------- *)
\* WEATHER_CODE_MAP.get(code, ("Unknown", "question_mark"))
FirstOr(found, default) == IF found = <<>> THEN default ELSE Tail(found[1])

CodeEntry(code) ==
    FirstOr(SelectSeq(WEATHER_CODE_MAP, LAMBDA row : row[1] = code),
            <<"Unknown", "question_mark">>)

code_to_desc(code) == CodeEntry(code)[1]

code_to_emoji(code) == CodeEntry(code)[2]

(* ---------------------------------------------------------------------- *)
(* Response normalizer                                                     *)
(* ---------------------------------------------------------------------- *)
\* pd.to_datetime of the payload's time strings
to_datetime_hours(times) == [i \in 1..Len(times) |-> times[i] * SECONDS_PER_HOUR]
to_datetime_days(times) == [i \in 1..Len(times) |-> times[i] * SECONDS_PER_DAY]

\* a frame is its rows in index order; raised: the constructor threw ValueError
EmptyFrame == [raised |-> FALSE, rows |-> <<>>]
RaisedFrame == [raised |-> TRUE, rows |-> <<>>]

\* pd.DataFrame(dict of lists, index=...) requires every list to have the
\* length of the index and raises ValueError otherwise
hourly_to_df(payload) ==
    LET hourly == Get(payload, "hourly", EmptyDict) IN
    IF DOMAIN hourly = {} THEN EmptyFrame
    ELSE LET times == to_datetime_hours(Get(hourly, "time", <<>>))
             t2m   == Get(hourly, "temperature_2m", <<>>)
             app   == Get(hourly, "apparent_temperature", <<>>)
             prec  == Get(hourly, "precipitation", <<>>)
             wc    == Get(hourly, "weathercode", <<>>)
         IN IF \E col \in {t2m, app, prec, wc} : Len(col) # Len(times)
            THEN RaisedFrame
            ELSE [raised |-> FALSE,
                  rows |-> [i \in 1..Len(times) |->
                              [datetime |-> times[i],
                               temperature_2m |-> t2m[i],
                               apparent_temperature |-> app[i],
                               precipitation |-> prec[i],
                               weathercode |-> wc[i]]]]

daily_to_df(payload) ==
    LET daily == Get(payload, "daily", EmptyDict) IN
    IF DOMAIN daily = {} THEN EmptyFrame
    ELSE LET dates == to_datetime_days(Get(daily, "time", <<>>))
             tmax  == Get(daily, "temperature_2m_max", <<>>)
             tmin  == Get(daily, "temperature_2m_min", <<>>)
             wc    == Get(daily, "weathercode", <<>>)
         IN IF \E col \in {tmax, tmin, wc} : Len(col) # Len(dates)
            THEN RaisedFrame
            ELSE [raised |-> FALSE,
                  rows |-> [i \in 1..Len(dates) |->
                              [date |-> dates[i],
                               temp_max |-> tmax[i],
                               temp_min |-> tmin[i],
                               weathercode |-> wc[i]]]]

(* ---------------------------------------------------------------------- *)
(* UI pieces                                                               *)
(* ---------------------------------------------------------------------- *)
NoCard == [shown |-> FALSE, info |-> "", title |-> <<>>, temperature |-> 0,
           windspeed |-> 0, condition |-> "", observed_at |-> 0, code |-> 0]

render_current_card(payload, place_name) ==
    LET cw == Get(payload, "current_weather", EmptyDict) IN
    IF DOMAIN cw = {}
    THEN [NoCard EXCEPT !.info = "No current weather found for this location."]
    ELSE [shown |-> TRUE, info |-> "",
          title |-> <<code_to_emoji(cw.weathercode)>> \o place_name,
          temperature |-> cw.temperature,
          windspeed |-> cw.windspeed,
          condition |-> code_to_desc(cw.weathercode),
          observed_at |-> cw.time,
          code |-> cw.weathercode]

NoChart == [shown |-> FALSE, info |-> "", points |-> <<>>]

\* (strictly after now)
AtOrAfter_Strict(t, now) == t > now

\* hourly_df.index >= now
AtOrAfter(t, now) == t >= now

draw_24h_chart(hourly_rows, now) ==
    IF hourly_rows = <<>>
    THEN [NoChart EXCEPT !.info = "No hourly data available."]
    ELSE LET Keep(r) == AtOrAfter(r.datetime, now)
             next_24h == head(SelectSeq(hourly_rows, Keep), CHART_HOURS)
         IN IF next_24h = <<>>
            THEN [NoChart EXCEPT !.info = "No next-24-hour data available."]
            ELSE [shown |-> TRUE, info |-> "",
                  points |-> [i \in 1..Len(next_24h) |->
                                [datetime |-> next_24h[i].datetime,
                                 temperature_2m |-> next_24h[i].temperature_2m,
                                 apparent_temperature |->
                                     next_24h[i].apparent_temperature]]]

NoTable == [shown |-> FALSE, info |-> "", rows |-> <<>>]

show_daily_summary(daily_rows) ==
    IF daily_rows = <<>>
    THEN [NoTable EXCEPT !.info = "No daily data available."]
    ELSE LET df == head(daily_rows, TABLE_DAYS)
         IN [shown |-> TRUE, info |-> "",
             rows |-> [i \in 1..Len(df) |->
                         [Date |-> df[i].date \div SECONDS_PER_DAY,
                          Weather |-> code_to_emoji(df[i].weathercode),
                          High |-> df[i].temp_max,
                          Low |-> df[i].temp_min]]]

(* ---------------------------------------------------------------------- *)
(* st.cache_data: a cache is a set of entries [key, value, at]            *)
(* ---------------------------------------------------------------------- *)
\* (a cache without the ttl: an entry is served for ever)
Fresh_Forever(e, ttl, now) == TRUE

\* the entry is served while the clock is before at + ttl
Fresh(e, ttl, now) == now < e.at + ttl

CacheHits(cache, key, ttl, now) == {e \in cache : e.key = key /\ Fresh(e, ttl, now)}

\* storing an entry replaces the key's entry and drops the entries whose time is up
CacheStore(cache, key, value, ttl, now) ==
    {e \in cache : e.key # key /\ Fresh(e, ttl, now)}
        \cup {[key |-> key, value |-> value, at |-> now]}

(* ---------------------------------------------------------------------- *)
(* Geocoding client                                                        *)
(* ---------------------------------------------------------------------- *)
\* Optional[List]: None is [some |-> FALSE]
NoneList == [some |-> FALSE, val |-> <<>>]
SomeList(l) == [some |-> TRUE, val |-> l]

geocode_params(city, max_results) ==
    [name |-> city, count |-> max_results, language |-> "en", format |-> "json"]

geocode_key(city, max_results) == <<city, max_results>>

\* (data["results"] in place of data.get("results"): a KeyError on an answer
\* without the key)
geocode_body_KeyError(resp) ==
    IF ~resp.ok \/ "results" \notin DOMAIN resp.data
    THEN [raised |-> TRUE, value |-> NoneList]
    ELSE IF resp.data.results = <<>> THEN [raised |-> FALSE, value |-> NoneList]
         ELSE [raised |-> FALSE, value |-> SomeList(resp.data.results)]

\* the body of geocode_city on the service's answer resp = [ok, data]:
\* raise_for_status, then data.get("results") (None and [] are both "not results")
geocode_body(resp) ==
    IF ~resp.ok THEN [raised |-> TRUE, value |-> NoneList]
    ELSE LET results == Get(resp.data, "results", <<>>)
         IN IF results = <<>> THEN [raised |-> FALSE, value |-> NoneList]
            ELSE [raised |-> FALSE, value |-> SomeList(results)]

\* resp of a call that sent no request
NoResponse == [ok |-> FALSE, data |-> EmptyDict]

\* a call of geocode_city: its cache key, whether it sent its request (with
\* params, answered by resp), whether it raised, the value it returned
NoGeoCall == [called |-> FALSE, sent |-> FALSE, raised |-> FALSE,
              key |-> geocode_key(<<>>, 0), params |-> geocode_params(<<>>, 0),
              resp |-> NoResponse, value |-> NoneList, at |-> 0]

\* the cached function: a hit returns the stored value and sends nothing;
\* a miss runs the body, and stores its value unless it raised
geocode_city(city, max_results, cache, now, resp) ==
    LET key  == geocode_key(city, max_results)
        hits == CacheHits(cache, key, GEO_TTL, now)
    IN IF hits # {}
       THEN [call  |-> [called |-> TRUE, sent |-> FALSE, raised |-> FALSE,
                        key |-> key, params |-> geocode_params(city, max_results),
                        resp |-> NoResponse,
                        value |-> (CHOOSE e \in hits : TRUE).value, at |-> now],
             cache |-> cache]
       ELSE LET r == geocode_body(resp)
            IN [call  |-> [called |-> TRUE, sent |-> TRUE, raised |-> r.raised,
                           key |-> key, params |-> geocode_params(city, max_results),
                           resp |-> resp, value |-> r.value, at |-> now],
                cache |-> IF r.raised THEN cache
                          ELSE CacheStore(cache, key, r.value, GEO_TTL, now)]

(* ---------------------------------------------------------------------- *)
(* Forecast client                                                         *)
(* ---------------------------------------------------------------------- *)
HOURLY_VARS == "temperature_2m,apparent_temperature,precipitation,weathercode"
DAILY_VARS == "temperature_2m_max,temperature_2m_min,weathercode"

\* (latitude and longitude exchanged)
fetch_weather_params_Swapped(lat, lon, timezone, units) ==
    [latitude |-> lon, longitude |-> lat, current_weather |-> TRUE,
     hourly |-> HOURLY_VARS, daily |-> DAILY_VARS, timezone |-> timezone]

\* (units sent along)
fetch_weather_params_WithUnits(lat, lon, timezone, units) ==
    [latitude |-> lat, longitude |-> lon, current_weather |-> TRUE,
     hourly |-> HOURLY_VARS, daily |-> DAILY_VARS, timezone |-> timezone,
     units |-> units]

\* the query parameters; units is an argument that is not used
fetch_weather_params(lat, lon, timezone, units) ==
    [latitude |-> lat, longitude |-> lon, current_weather |-> TRUE,
     hourly |-> HOURLY_VARS, daily |-> DAILY_VARS, timezone |-> timezone]

\* st.cache_data hashes every argument of the call, units included
fetch_weather_key(lat, lon, timezone, units) == <<lat, lon, timezone, units>>

NoFetchCall == [called |-> FALSE, sent |-> FALSE, raised |-> FALSE,
                key |-> fetch_weather_key(0, 0, <<>>, ""),
                params |-> fetch_weather_params(0, 0, <<>>, ""),
                payload |-> EmptyDict]

fetch_weather(lat, lon, timezone, units, cache, now, resp) ==
    LET key  == fetch_weather_key(lat, lon, timezone, units)
        prm  == fetch_weather_params(lat, lon, timezone, units)
        hits == CacheHits(cache, key, FETCH_TTL, now)
    IN IF hits # {}
       THEN [call  |-> [called |-> TRUE, sent |-> FALSE, raised |-> FALSE,
                        key |-> key, params |-> prm,
                        payload |-> (CHOOSE e \in hits : TRUE).value],
             cache |-> cache]
       ELSE IF ~resp.ok
            THEN [call  |-> [called |-> TRUE, sent |-> TRUE, raised |-> TRUE,
                             key |-> key, params |-> prm, payload |-> EmptyDict],
                  cache |-> cache]
            ELSE [call  |-> [called |-> TRUE, sent |-> TRUE, raised |-> FALSE,
                             key |-> key, params |-> prm, payload |-> resp.data],
                  cache |-> CacheStore(cache, key, resp.data, FETCH_TTL, now)]

(* ---------------------------------------------------------------------- *)
(* main(): one script run                                                  *)
(* ---------------------------------------------------------------------- *)
UTC == <<"U", "T", "C">>

\* (only an empty passphrase is turned away)
GateBlocks_OnlyEmpty(app_password, pw) == app_password # "" /\ pw = ""

\* the password gate stops the run
GateBlocks(app_password, pw) == app_password # "" /\ pw # app_password

\* ("not city", without the strip)
IsBlank_NoStrip(city) == city = <<>>

\* "not city.strip()"
IsBlank(city) == strip(city) = <<>>

\* "not matches"
NotMatches(matches) == ~matches.some \/ matches.val = <<>>

\* tz_choice.strip() or "UTC"
TimezoneOf(tz_choice) == IF strip(tz_choice) = <<>> THEN UTC ELSE strip(tz_choice)

\* the selectbox label of one match
OptionLabel(m) ==
    <<m.name, ", ", Get(m, "admin1", ""), " ", m.country,
      " (", Fmt3(m.latitude), ",", Fmt3(m.longitude), ")">>

OptionLabels(matches) == [i \in 1..Len(matches) |-> OptionLabel(matches[i])]

PlaceLabel(place) ==
    LET admin1 == Get(place, "admin1", "")
    IN <<place.name>> \o (IF admin1 # "" THEN <<", ", admin1>> ELSE <<>>)
       \o <<", ", place.country>>

\* st.selectbox followed by options.index(choice): the entry the user picked
\* (choice = 0: the user picked none, and the widget returns its first option)
SelectboxIndex(options, choice) ==
    IF choice \in 1..Len(options) THEN IndexOf(options, options[choice]) ELSE 1

NoPlace == [name |-> "", country |-> "", latitude |-> 0, longitude |-> 0]

\* a run that stops before the report: nothing is asked of a service, nothing
\* of the report is rendered.  level is the kind of message box it shows
Halted(outcome, level, in) ==
    [in |-> in, outcome |-> outcome, level |-> level, form |-> (outcome # "gate"),
     geo |-> NoGeoCall, matches |-> <<>>, options |-> <<>>,
     idx |-> 0, explicit |-> FALSE, place |-> NoPlace, place_label |-> <<>>,
     fetch |-> NoFetchCall,
     normalized |-> 0, hourly |-> EmptyFrame, daily |-> EmptyFrame,
     card |-> NoCard, chart |-> NoChart, table |-> NoTable]

\* lines 274-290: the report, once the payload is there.  hourly_to_df and
\* daily_to_df are called outside any try: a ValueError of theirs leaves main()
\* with what was rendered before it
ReportFrames(base, hourly, daily, now) ==
    IF hourly.raised
    THEN [base EXCEPT !.outcome = "uncaught", !.level = "exception",
                      !.normalized = 1, !.hourly = hourly]
    ELSE IF daily.raised
    THEN [base EXCEPT !.outcome = "uncaught", !.level = "exception",
                      !.normalized = 2, !.hourly = hourly, !.daily = daily,
                      !.chart = draw_24h_chart(hourly.rows, now)]
    ELSE [base EXCEPT !.outcome = "report", !.level = "none",
                      !.normalized = 2, !.hourly = hourly, !.daily = daily,
                      !.chart = draw_24h_chart(hourly.rows, now),
                      !.table = show_daily_summary(daily.rows)]

Report(base, payload, now) ==
    ReportFrames([base EXCEPT !.card = render_current_card(payload, base.place_label)],
                 hourly_to_df(payload), daily_to_df(payload), now)

\* lines 267-272: the forecast is there, or fetch_weather raised
Fetched(env, g, base, f) ==
    [res |-> IF f.call.raised
             THEN [base EXCEPT !.outcome = "fetch_failed", !.level = "error",
                               !.fetch = f.call]
             ELSE Report([base EXCEPT !.fetch = f.call], f.call.payload, env.now),
     geoCache |-> g.cache, fetchCache |-> f.cache]

\* lines 255-269: the place's fields, the label, the timezone, the call
Selected(env, g, base, place) ==
    Fetched(env, g,
            [base EXCEPT !.place = place, !.place_label = PlaceLabel(place)],
            fetch_weather(place.latitude, place.longitude, TimezoneOf(env.in.tz),
                          env.in.units, env.fetchCache, env.now, env.fetchResp))

\* lines 246-253: one match is taken as it is, several go through the selectbox
SelectFrom(env, g, base, matches, options) ==
    IF Len(matches) > 1
    THEN Selected(env, g,
                  [base EXCEPT !.matches = matches, !.options = options,
                               !.idx = SelectboxIndex(options, env.in.choice),
                               !.explicit = env.in.choice \in 1..Len(options)],
                  matches[SelectboxIndex(options, env.in.choice)])
    ELSE Selected(env, g, [base EXCEPT !.matches = matches, !.idx = 1], matches[1])

\* lines 235-244: geocode_city raised, found nothing, or returned matches
Geocoded(env, g, base) ==
    IF g.call.raised
    THEN [res |-> base, geoCache |-> g.cache, fetchCache |-> env.fetchCache]
    ELSE IF NotMatches(g.call.value)
    THEN [res |-> [base EXCEPT !.outcome = "not_found", !.level = "warning"],
          geoCache |-> g.cache, fetchCache |-> env.fetchCache]
    ELSE SelectFrom(env, g, base, g.call.value.val, OptionLabels(g.call.value.val))

Stop(env, res) ==
    [res |-> res, geoCache |-> env.geoCache, fetchCache |-> env.fetchCache]

GeoHalt(in, call) == [Halted("geocoding_failed", "error", in) EXCEPT !.geo = call]

Called(env, g) == Geocoded(env, g, GeoHalt(env.in, g.call))

\* env: [app_password, in: [pw, city, units, tz, submit, choice], now,
\*       geoCache, fetchCache, geoResp, fetchResp]
\* the result: what the run did (res) and the two caches after it
main(env) ==
    IF GateBlocks(env.app_password, env.in.pw)
    THEN Stop(env, Halted("gate", "warning", env.in))
    ELSE IF ~env.in.submit
    THEN Stop(env, Halted("idle", "info", env.in))
    ELSE IF IsBlank(env.in.city)
    THEN Stop(env, Halted("validation", "error", env.in))
    ELSE Called(env, geocode_city(env.in.city, MAX_RESULTS, env.geoCache, env.now,
                                  env.geoResp))

(* ---------------------------------------------------------------------- *)
(* What the user can type and what the services can answer                 *)
(* ---------------------------------------------------------------------- *)
Passwords == {"", "abc"}
Passphrases == {"", "abc", "xyz"}
Cities == {<<>>, <<" ">>, <<"L", " ">>}
Units == {"metric", "imperial"}
Timezones == {<<>>, <<"E", " ">>}

OtherUnits(u) == IF u = "metric" THEN "imperial" ELSE "metric"

London == [name |-> "London", admin1 |-> "England", country |-> "United Kingdom",
           latitude |-> 515074, longitude |-> -1278]
Monaco == [name |-> "Monaco", country |-> "Monaco",
           latitude |-> 437333, longitude |-> 74167]
Springfield == [name |-> "Springfield", admin1 |-> "Illinois",
                country |-> "United States",
                latitude |-> 398017, longitude |-> -896437]

GeoError == [ok |-> FALSE, data |-> EmptyDict]
GeoResponses ==
    {GeoError,
     [ok |-> TRUE, data |-> EmptyDict],
     [ok |-> TRUE, data |-> [results |-> <<>>]],
     [ok |-> TRUE, data |-> [results |-> <<London>>]],
     [ok |-> TRUE, data |-> [results |-> <<Monaco, Springfield>>]]}

CurrentA == [temperature |-> 12, windspeed |-> 3, weathercode |-> 61, time |-> 0]
HourlyA == [time |-> <<0, 1, 2>>, temperature_2m |-> <<10, 11, 12>>,
            apparent_temperature |-> <<9, 10, 11>>, precipitation |-> <<0, 0, 1>>,
            weathercode |-> <<0, 3, 61>>]
DailyA == [time |-> <<0, 1>>, temperature_2m_max |-> <<15, 16>>,
           temperature_2m_min |-> <<5, 6>>, weathercode |-> <<3, 7>>]

\* a complete payload
PayloadA == [current_weather |-> CurrentA, hourly |-> HourlyA, daily |-> DailyA]
\* three timestamps and two temperatures
PayloadHourlyShort ==
    [PayloadA EXCEPT !.hourly = [HourlyA EXCEPT !.temperature_2m = <<10, 11>>]]
\* no current weather, and a daily block that lacks its minima
PayloadDailyShort ==
    [hourly |-> HourlyA,
     daily |-> [time |-> <<0, 1>>, temperature_2m_max |-> <<15, 16>>,
                weathercode |-> <<3, 7>>]]

FetchError == [ok |-> FALSE, data |-> EmptyDict]
FetchResponses ==
    {FetchError} \cup
    {[ok |-> TRUE, data |-> p] :
        p \in {PayloadA, PayloadHourlyShort, PayloadDailyShort, EmptyDict}}

TickSteps == {FETCH_TTL, GEO_TTL}

(* ---------------------------------------------------------------------- *)
(* The session                                                             *)
(* ---------------------------------------------------------------------- *)
VARIABLES
    app_password,   \* os.getenv("WEATHER_APP_PASSWORD", "")
    clock,          \* the system clock, in seconds
    submits,        \* clicks on "Get Weather" so far
    ticks,          \* advances of the clock so far
    geoCache,       \* st.cache_data of geocode_city
    fetchCache,     \* st.cache_data of fetch_weather
    run,            \* the latest script run: the widget values it read (in),
                    \* what it did and what it rendered
    twin,           \* the same run, had the units selector held the other value
    geoLog,         \* every call of geocode_city so far, in order
    c_rows,         \* SpecChart: the hourly frame given to draw_24h_chart
    c_now,          \* SpecChart: datetime.utcnow() at that call
    c_chart,        \* SpecChart: what draw_24h_chart rendered
    c_done          \* SpecChart: draw_24h_chart has returned

vars == <<app_password, clock, submits, ticks, geoCache, fetchCache, run, twin,
          geoLog, c_rows, c_now, c_chart, c_done>>

chartVars == <<c_rows, c_now, c_chart, c_done>>

sessionVars == <<app_password, clock, submits, ticks, geoCache, fetchCache, run,
                 twin, geoLog>>

Inputs(pw, city, units, tz, submit, choice) ==
    [pw |-> pw, city |-> city, units |-> units, tz |-> tz,
     submit |-> submit, choice |-> choice]

DefaultInputs == Inputs("", <<>>, "metric", <<>>, FALSE, 0)

\* what of a run the comparison of two unit selections looks at
Seen(r) == [outcome |-> r.outcome, fetch |-> r.fetch,
            card |-> r.card, chart |-> r.chart, table |-> r.table]

\* the state after a script run with result r; t is the result of the same
\* run with the other value of the units selector
Commit(r, t) ==
    /\ run' = r.res
    /\ twin' = Seen(t.res)
    /\ geoCache' = r.geoCache
    /\ fetchCache' = r.fetchCache
    /\ geoLog' = IF r.res.geo.called THEN Append(geoLog, r.res.geo) ELSE geoLog
    /\ UNCHANGED <<app_password, clock, ticks, chartVars>>

RunOn(env) == Commit(main(env), main([env EXCEPT !.in.units = OtherUnits(@)]))

\* one script run on the widget values in
Rerun(in, geoResp, fetchResp) ==
    RunOn([app_password |-> app_password, in |-> in, now |-> clock,
           geoCache |-> geoCache, fetchCache |-> fetchCache,
           geoResp |-> geoResp, fetchResp |-> fetchResp])

FirstRun(password) ==
    main([app_password |-> password, in |-> DefaultInputs, now |-> 0,
          geoCache |-> {}, fetchCache |-> {},
          geoResp |-> GeoError, fetchResp |-> FetchError]).res

\* the page after the first script run of the session
InitSession ==
    /\ app_password \in Passwords
    /\ clock = 0 /\ submits = 0 /\ ticks = 0
    /\ geoCache = {} /\ fetchCache = {}
    /\ run = FirstRun(app_password)
    /\ twin = Seen(FirstRun(app_password))
    /\ geoLog = <<>>

Init ==
    /\ InitSession
    /\ c_rows = <<>> /\ c_now = 0 /\ c_chart = NoChart /\ c_done = FALSE

\* The widget values of the next run are those of the latest run (run.in)
\* but for what the user changed.  A widget that a run does not create loses
\* its value: after a run stopped at the gate the form starts from its defaults.
Widgets ==
    IF run.form THEN [run.in EXCEPT !.submit = FALSE, !.choice = 0]
    ELSE [DefaultInputs EXCEPT !.pw = run.in.pw]

\* the user commits a passphrase in the sidebar (shown when a password is set)
EditPassword(pw) ==
    /\ app_password # ""
    /\ pw # run.in.pw
    /\ Rerun([Widgets EXCEPT !.pw = pw], GeoError, FetchError)
    /\ UNCHANGED submits

\* the user edits a widget of the form (on the page when the gate was passed)
SetCity(city) ==
    /\ run.form
    /\ city # run.in.city
    /\ Rerun([Widgets EXCEPT !.city = city], GeoError, FetchError)
    /\ UNCHANGED submits

SetUnits(units) ==
    /\ run.form
    /\ units # run.in.units
    /\ Rerun([Widgets EXCEPT !.units = units], GeoError, FetchError)
    /\ UNCHANGED submits

SetTimezone(tz) ==
    /\ run.form
    /\ tz # run.in.tz
    /\ Rerun([Widgets EXCEPT !.tz = tz], GeoError, FetchError)
    /\ UNCHANGED submits

\* the user picks an entry of "Multiple matches found": the script re-runs, and
\* st.button returns False in a run that its click did not start
ChooseMatch(i) ==
    /\ Len(run.options) > 1
    /\ i \in 1..Len(run.options)
    /\ Rerun([Widgets EXCEPT !.choice = i], GeoError, FetchError)
    /\ UNCHANGED submits

\* the user clicks "Get Weather"; a passphrase typed just before the click
\* reaches the script in the same run.  The selectbox of matches was not on
\* the page or is created anew with the run's matches: no choice of the user's
Click(limit, pw, geoResp, fetchResp) ==
    /\ run.form
    /\ submits < limit
    /\ app_password = "" => pw = run.in.pw
    /\ submits' = submits + 1
    /\ Rerun([Widgets EXCEPT !.pw = pw, !.submit = TRUE], geoResp, fetchResp)

ClickGetWeather(pw, geoResp, fetchResp) == Click(MaxSubmits, pw, geoResp, fetchResp)

Tick(d) ==
    /\ ticks < MaxTicks
    /\ ticks' = ticks + 1
    /\ clock' = clock + d
    /\ UNCHANGED <<app_password, submits, geoCache, fetchCache, run, twin, geoLog,
                   chartVars>>

Next ==
    \/ \E pw \in Passphrases : EditPassword(pw)
    \/ \E c \in Cities : SetCity(c)
    \/ \E u \in Units : SetUnits(u)
    \/ \E z \in Timezones : SetTimezone(z)
    \/ \E i \in 1..MAX_RESULTS : ChooseMatch(i)
    \/ \E pw \in Passphrases, g \in GeoResponses, f \in FetchResponses :
            ClickGetWeather(pw, g, f)
    \/ \E d \in TickSteps : Tick(d)

Spec == Init /\ [][Next]_vars

(* ---------------------------------------------------------------------- *)
(* Sessions of several clicks.  No password is set and the timezone stays  *)
(* blank; SpecGeocode varies the city and the geocoding answers,           *)
(* SpecUnits the units and the forecast answers.                           *)
(* ---------------------------------------------------------------------- *)
InitOpen == Init /\ app_password = ""

GeocodeCities == {<<" ">>, <<"L">>, <<"L", " ">>}

NextGeocode ==
    \/ \E c \in GeocodeCities : SetCity(c)
    \/ \E g \in GeoResponses :
            Click(MaxCalls, run.in.pw, g, [ok |-> TRUE, data |-> PayloadA])
    \/ \E d \in TickSteps : Tick(d)

SpecGeocode == InitOpen /\ [][NextGeocode]_vars

UnitsFetchResponses ==
    {FetchError, [ok |-> TRUE, data |-> PayloadA], [ok |-> TRUE, data |-> EmptyDict]}

NextUnits ==
    \/ SetCity(<<"L">>)
    \/ \E u \in Units : SetUnits(u)
    \/ \E f \in UnitsFetchResponses :
            Click(MaxCalls, run.in.pw, [ok |-> TRUE, data |-> [results |-> <<London>>]], f)
    \/ \E d \in TickSteps : Tick(d)

SpecUnits == InitOpen /\ [][NextUnits]_vars

(* ---------------------------------------------------------------------- *)
(* draw_24h_chart on its own: any frame, any clock                         *)
(* ---------------------------------------------------------------------- *)
ChartRow(i, hour) ==
    [datetime |-> hour * SECONDS_PER_HOUR, temperature_2m |-> i,
     apparent_temperature |-> i - 2, precipitation |-> 0, weathercode |-> 0]

Shapes == {"ascending", "descending", "constant"}

ChartFrame(n, start, shape) ==
    [i \in 1..n |->
        ChartRow(i, CASE shape = "ascending" -> start + i - 1
                      [] shape = "descending" -> start + n - i
                      [] OTHER -> start)]

ChartFrames ==
    {ChartFrame(n, start, shape) : n \in 0..MaxHours, start \in {0, 4}, shape \in Shapes}

ChartNows ==
    {h * SECONDS_PER_HOUR + off : h \in 0..MaxNowHour, off \in {0, 1800}}

InitChart ==
    /\ InitSession
    /\ app_password = ""
    /\ c_rows \in ChartFrames
    /\ c_now \in ChartNows
    /\ c_chart = NoChart
    /\ c_done = FALSE

DrawChart ==
    /\ ~c_done
    /\ c_chart' = draw_24h_chart(c_rows, c_now)
    /\ c_done' = TRUE
    /\ UNCHANGED <<sessionVars, c_rows, c_now>>

NextChart == DrawChart

SpecChart == InitChart /\ [][NextChart]_vars

(* ====================================================================== *)
(* The claims                                                              *)
(* ====================================================================== *)
NothingOfTheReport(r) ==
    /\ ~r.geo.called /\ ~r.geo.sent
    /\ ~r.fetch.called /\ ~r.fetch.sent
    /\ r.matches = <<>> /\ r.options = <<>> /\ r.place_label = <<>>
    /\ r.normalized = 0
    /\ ~r.card.shown /\ r.card.info = ""
    /\ ~r.chart.shown /\ r.chart.info = ""
    /\ ~r.table.shown /\ r.table.info = ""

WrongPassphrase == app_password # "" /\ run.in.pw # app_password

(* C1: with a password configured and a passphrase that differs from it,   *)
(* the run ends at the gate prompt: the form is not shown, nothing of the  *)
(* report is rendered and neither service is called, whatever the city,    *)
(* units, timezone and submit inputs of the run are.                       *)
C1_GateHalts ==
    WrongPassphrase =>
        /\ run.outcome = "gate" /\ run.level = "warning"
        /\ ~run.form
        /\ NothingOfTheReport(run)

\* a wrong passphrase typed before a click on "Get Weather", a city filled in
C1_Witness ==
    /\ WrongPassphrase
    /\ run.in.submit
    /\ \E i \in 1..Len(run.in.city) : run.in.city[i] # " "
    /\ run.outcome = "gate"

AllSpaces(text) == \A i \in 1..Len(text) : text[i] = " "

(* C2: a submitted city that is empty or only blanks halts the run with    *)
(* the validation error, and neither geocode_city nor fetch_weather is     *)
(* called, whatever the caches hold.                                       *)
C2_BlankCityHalts ==
    (~WrongPassphrase /\ run.in.submit /\ AllSpaces(run.in.city)) =>
        /\ run.outcome = "validation" /\ run.level = "error"
        /\ NothingOfTheReport(run)

\* a city of one blank is submitted while both caches hold entries
C2_Witness ==
    /\ run.in.submit /\ run.in.city = <<" ">>
    /\ run.outcome = "validation"
    /\ geoCache # {} /\ fetchCache # {}

ZeroResults(data) == "results" \notin DOMAIN data \/ Len(data.results) = 0

(* C3: a geocoding answer with no results (the key missing, or an empty   *)
(* array) ends the run in the not-found warning, which is no error, and    *)
(* fetch_weather is not called in that run.                                *)
C3_NoResultsIsNotFound ==
    (run.geo.called
        /\ (IF run.geo.sent
            THEN run.geo.resp.ok /\ ZeroResults(run.geo.resp.data)
            ELSE ~run.geo.value.some)) =>
        /\ run.outcome = "not_found" /\ run.level = "warning"
        /\ ~run.fetch.called /\ ~run.fetch.sent
        /\ run.normalized = 0 /\ ~run.card.shown

\* the service answered without a "results" key
C3_Witness ==
    /\ run.geo.sent /\ run.geo.resp.ok
    /\ "results" \notin DOMAIN run.geo.resp.data
    /\ run.outcome = "not_found"

(* C4: with more than one match no forecast request is issued until the    *)
(* user has explicitly chosen a match.                                     *)
C4_ChoiceBeforeForecast ==
    (Len(run.matches) > 1 /\ run.fetch.sent) => run.explicit

ColumnLengths(block, columns) == {Len(Get(block, c, <<>>)) : c \in columns}

Shortest(lengths) == CHOOSE n \in lengths : \A m \in lengths : n <= m

HourlyColumns ==
    {"time", "temperature_2m", "apparent_temperature", "precipitation", "weathercode"}

DailyColumns == {"time", "temperature_2m_max", "temperature_2m_min", "weathercode"}

Truncated(payload, blockName, columns, frame) ==
    LET lengths == ColumnLengths(Get(payload, blockName, EmptyDict), columns)
    IN (blockName \in DOMAIN payload /\ Cardinality(lengths) > 1) =>
            ~frame.raised /\ Len(frame.rows) = Shortest(lengths)

(* C5: on a payload whose hourly (or daily) arrays differ in length,       *)
(* hourly_to_df (daily_to_df) does not fail and returns as many rows as    *)
(* the shortest array has.                                                 *)
C5_TruncatesToShortest ==
    /\ run.normalized >= 1 =>
            Truncated(run.fetch.payload, "hourly", HourlyColumns, run.hourly)
    /\ run.normalized >= 2 =>
            Truncated(run.fetch.payload, "daily", DailyColumns, run.daily)

(* C6: every hard error of a report request, a failure while shaping the   *)
(* response included, is caught in main() and shown as an inline message:  *)
(* no exception leaves main(); and after a failure nothing more is asked   *)
(* of a service in that run.                                               *)
C6_ErrorsCaught ==
    /\ run.outcome # "uncaught"
    /\ run.level # "exception"
    /\ run.geo.raised => (run.outcome = "geocoding_failed" /\ ~run.fetch.called)
    /\ run.fetch.raised => (run.outcome = "fetch_failed" /\ run.normalized = 0)

\* an earlier call that asked the service, got a value, and is still within
\* its hour at the time of the call geoLog[j]
Covers(i, j) ==
    /\ i < j
    /\ geoLog[i].key = geoLog[j].key
    /\ geoLog[i].sent /\ ~geoLog[i].raised
    /\ geoLog[j].at < geoLog[i].at + GEO_TTL

(* C7: a call of geocode_city with the arguments of an earlier call that   *)
(* returned (a list or None) less than an hour before sends no request and *)
(* returns the same value; a call that no such earlier call covers sends a *)
(* request.                                                                *)
C7_GeocodeCached ==
    \A j \in 1..Len(geoLog) :
        /\ \A i \in 1..Len(geoLog) :
                Covers(i, j) =>
                    /\ ~geoLog[j].sent /\ ~geoLog[j].raised
                    /\ geoLog[j].value = geoLog[i].value
        /\ (~\E i \in 1..Len(geoLog) : Covers(i, j)) => geoLog[j].sent

\* a second call with the arguments of the first, later but within the hour,
\* that sends nothing and returns the stored list
C7_Witness ==
    /\ Len(geoLog) = 2
    /\ geoLog[1].key = geoLog[2].key
    /\ geoLog[1].sent /\ ~geoLog[1].raised
    /\ geoLog[2].at > geoLog[1].at
    /\ geoLog[2].at < geoLog[1].at + GEO_TTL
    /\ ~geoLog[2].sent
    /\ geoLog[2].value.some

(* C8: a geocoding answer of exactly one result is selected without any    *)
(* selectbox or choice, and fetch_weather is called in the same run with   *)
(* that result's latitude and longitude.                                   *)
C8_SingleMatchSelected ==
    (run.geo.called /\ ~run.geo.raised /\ run.geo.value.some
        /\ Len(run.geo.value.val) = 1) =>
        /\ run.options = <<>> /\ ~run.explicit
        /\ run.place = run.geo.value.val[1]
        /\ run.fetch.called
        /\ run.fetch.params.latitude = run.geo.value.val[1].latitude
        /\ run.fetch.params.longitude = run.geo.value.val[1].longitude

C8_Witness ==
    /\ run.geo.sent /\ run.geo.resp.ok
    /\ ~ZeroResults(run.geo.resp.data)
    /\ Len(run.geo.resp.data.results) = 1
    /\ run.fetch.sent
    /\ run.fetch.params.latitude = London.latitude
    /\ run.fetch.params.longitude = London.longitude
    /\ run.outcome = "report"

\* positions of the rows at or after now, and the rank of one among them
Upcoming == {i \in 1..Len(c_rows) : c_rows[i].datetime >= c_now}

Rank(i) == Cardinality({j \in Upcoming : j <= i})

Plotted(row) ==
    [datetime |-> row.datetime, temperature_2m |-> row.temperature_2m,
     apparent_temperature |-> row.apparent_temperature]

(* C9: the chart plots the rows at or after now, in the order of the       *)
(* frame, and only the first 24 of them; with no such row (or no row at    *)
(* all) it shows an informational placeholder and no chart.                *)
C9_ChartWindow ==
    c_done =>
        IF Upcoming = {}
        THEN ~c_chart.shown /\ c_chart.info # "" /\ c_chart.points = <<>>
        ELSE /\ c_chart.shown /\ c_chart.info = ""
             /\ Len(c_chart.points) =
                    (IF Cardinality(Upcoming) < CHART_HOURS
                     THEN Cardinality(Upcoming) ELSE CHART_HOURS)
             /\ \A i \in Upcoming :
                    Rank(i) <= CHART_HOURS =>
                        c_chart.points[Rank(i)] = Plotted(c_rows[i])

\* more than 24 rows at or after now, one of them at now, and rows before now
C9_Witness ==
    /\ c_done /\ c_chart.shown
    /\ Cardinality(Upcoming) > CHART_HOURS
    /\ Cardinality(Upcoming) < Len(c_rows)
    /\ \E i \in Upcoming : c_rows[i].datetime = c_now

SameRendering(a, b) ==
    /\ a.outcome = b.outcome
    /\ a.card = b.card /\ a.chart = b.chart /\ a.table = b.table

(* C10 as claimed: two runs that differ in the units selector alone send   *)
(* the same forecast request and render the same values.                   *)
C10_UnitsChangeNothing ==
    /\ run.fetch.sent = twin.fetch.sent
    /\ run.fetch.sent => run.fetch.params = twin.fetch.params
    /\ SameRendering(run, twin)

(* C10 amended: units is no query parameter of the forecast request: the   *)
(* two runs call fetch_weather with the same query parameters, and when    *)
(* both send their request (or neither calls fetch_weather) they render    *)
(* the same values.  units is part of the cache key, so one of the runs    *)
(* may be served a cached payload while the other asks the service.        *)
C10_UnitsNotInRequest ==
    /\ run.fetch.called = twin.fetch.called
    /\ run.fetch.called => run.fetch.params = twin.fetch.params
    /\ (run.fetch.sent = twin.fetch.sent /\ (run.fetch.called => run.fetch.sent)) =>
            SameRendering(run, twin)

\* both runs ask the service and render the report
C10_Witness ==
    /\ run.fetch.sent /\ twin.fetch.sent
    /\ run.in.units = "imperial"
    /\ run.outcome = "report" /\ run.card.shown /\ run.chart.shown /\ run.table.shown
    /\ fetchCache # {}

====
